---- MODULE Spec2Model ----
(***************************************************************************)
(* holdem_rs: a 52-card deck, the classification and ordering of 5-card    *)
(* poker hands, the best 5-card hand of a larger pool, and the search for  *)
(* the best two hole cards for a community board (the nuts).               *)
(*                                                                         *)
(* Encoding.  A Rank is its discriminant 0..12 (Two..Ace), a Suit is its   *)
(* discriminant 0..3 (Hearts, Clubs, Spades, Diamonds).  A Card is the     *)
(* number rank * NumSuits + suit, so that the derived Ord of Card (rank    *)
(* first, then suit) is the order of the integers.  Option<T> is a         *)
(* sequence of length at most one.  A HandType is the sequence of its      *)
(* variant index followed by its fields, so that the derived Ord of        *)
(* HandType is compared variant first, then field by field.                *)
(***************************************************************************)
EXTENDS Integers, Sequences, FiniteSets, TLC

VARIABLES
  cards,      \* Hand::from: the 5 cards passed in, in the caller's order
  hand,       \* Hand::from: the Hand built from cards (None before the call)
  htype,      \* hand_type: the HandType of hand (None before the call)
  lhs,        \* Ord for Hand: the left hand of a comparison
  rhs,        \* Ord for Hand: the right hand of a comparison
  ord,        \* Ord for Hand: the Ordering returned by lhs.cmp(rhs)
  pool,       \* best_hand: the cards passed in
  best,       \* best_hand: <<the value returned>>, and <<>> before the call
  community,  \* find_nuts: the community cards passed in
  pc,         \* find_nuts: "call", "iter", "done" or "panic"
  at,         \* find_nuts: the index pair combinations(2) yields next
  nuts,       \* find_nuts: the running maximum of Iterator::max
  tried,      \* find_nuts: the candidates already folded into nuts (history)
  deck,       \* Deck: the Vec<Card> it holds
  prev,       \* deal_n: the deck as it was before the last call (history)
  size,       \* deal_n: the N of the last call
  ret,        \* deal_n: <<the value the last call returned>>, <<>> before it
  dealt       \* deal_n: <<the cards handed out so far, those handed out more
              \* than once>> (history)

vars == <<cards, hand, htype, lhs, rhs, ord, pool, best, community, pc, at,
          nuts, tried, deck, prev, size, ret, dealt>>

handVars  == <<cards, hand, htype>>
ordVars   == <<lhs, rhs, ord>>
bestVars  == <<pool, best>>
nutsVars  == <<community, pc, at, nuts, tried>>
deckVars  == <<deck, prev, size, ret, dealt>>

-----------------------------------------------------------------------------
(* cards.rs: Rank, Suit, Card *)

NumRanks == 13
NumSuits == 4
HandSize == 5

Two   == 0
Three == 1
Four  == 2
Five  == 3
Six   == 4
Seven == 5
Eight == 6
Nine  == 7
Ten   == 8
Jack  == 9
Queen == 10
King  == 11
Ace   == 12

Hearts   == 0
Clubs    == 1
Spades   == 2
Diamonds == 3

Rank == 0..(NumRanks - 1)
Suit == 0..(NumSuits - 1)

Card(rank, suit) == rank * NumSuits + suit
RankOf(card) == card \div NumSuits
SuitOf(card) == card % NumSuits

None == <<>>
Some(x) == <<x>>

\* Card::iter: Rank::iter().cartesian_product(Suit::iter()), rank-major.
CardIter == [k \in 1..(NumRanks * NumSuits) |-> Card((k - 1) \div NumSuits, (k - 1) % NumSuits)]

\* Rank::successor: from_u8(self + 1), and Two when there is no such rank.
successor(rank) == IF rank + 1 < NumRanks THEN rank + 1 ELSE Two

Range(s) == {s[k] : k \in 1..Len(s)}

-----------------------------------------------------------------------------
(* hands.rs: Hand, HandType *)

HighCard         == <<0>>
Pair(r)          == <<1, r>>
TwoPair(hi, lo)  == <<2, hi, lo>>
ThreeOfAKind(r)  == <<3, r>>
Straight(r)      == <<4, r>>
Flush            == <<5>>
FullHouse(t, p)  == <<6, t, p>>
FourOfAKind(r)   == <<7, r>>
StraightFlush(r) == <<8, r>>

\* Ord of sequences of equal length (arrays, tuples, the fields of one
\* variant): the first position that differs decides.
RECURSIVE LexCmp(_, _, _)
LexCmp(a, b, k) ==
  IF k > Len(a) THEN "Equal"
  ELSE IF a[k] < b[k] THEN "Less"
  ELSE IF a[k] > b[k] THEN "Greater"
  ELSE LexCmp(a, b, k + 1)

\* #[derive(Ord)] for HandType: the variant index first, then the fields.
HandTypeCmp(x, y) ==
  IF x[1] < y[1] THEN "Less"
  ELSE IF x[1] > y[1] THEN "Greater"
  ELSE LexCmp(x, y, 2)

\* One step of the insertion sort that sort_by(|a, b| b.cmp(a)) runs on a
\* short vector: x goes behind every element that is not smaller (stable).
RECURSIVE InsertDesc(_, _)
InsertDesc(sorted, x) ==
  IF sorted = <<>> THEN <<x>>
  ELSE IF Head(sorted) >= x THEN <<Head(sorted)>> \o InsertDesc(Tail(sorted), x)
  ELSE <<x>> \o sorted

RECURSIVE SortDescFrom(_, _, _)
SortDescFrom(v, k, sorted) ==
  IF k > Len(v) THEN sorted ELSE SortDescFrom(v, k + 1, InsertDesc(sorted, v[k]))

\* Hand::from: the cards sorted descending; no other check is made.
Hand_from(cs) == SortDescFrom(cs, 1, <<>>)

\* Hand::ranks
ranks(h) == <<RankOf(h[1]), RankOf(h[2]), RankOf(h[3]), RankOf(h[4]), RankOf(h[5])>>

\* Hand::is_flush
is_flush(h) ==
  LET suit == SuitOf(h[1]) IN
  SuitOf(h[2]) = suit /\ SuitOf(h[3]) = suit /\ SuitOf(h[4]) = suit /\ SuitOf(h[5]) = suit

\* extract_straight without its first test: the wheel goes through the
\* general test, where Two follows Ace.
StraightBySuccessorOnly(rs) ==
  IF \A k \in 1..(HandSize - 1) : successor(rs[k + 1]) = rs[k]
  THEN Some(rs[1])
  ELSE None

\* Hand::extract_straight, on self.ranks()
extract_straight(rs) ==
  IF rs = <<Ace, Five, Four, Three, Two>> THEN Some(Five)
  ELSE IF \A k \in 1..(HandSize - 1) : rs[k + 1] # Ace /\ successor(rs[k + 1]) = rs[k]
       THEN Some(rs[1])
       ELSE None

\* itertools dedup_with_count: the runs of equal neighbours as (count, item).
RECURSIVE dedup_with_count(_)
dedup_with_count(s) ==
  IF s = <<>> THEN <<>>
  ELSE LET rest == dedup_with_count(Tail(s)) IN
       IF rest # <<>> /\ rest[1][2] = s[1]
       THEN <<(<<rest[1][1] + 1, s[1]>>)>> \o Tail(rest)
       ELSE <<(<<1, s[1]>>)>> \o rest

\* groups.sort_by(|a, b| b.cmp(a)) on (count, rank) tuples.
RECURSIVE InsertGroup(_, _)
InsertGroup(sorted, g) ==
  IF sorted = <<>> THEN <<g>>
  ELSE IF LexCmp(Head(sorted), g, 1) # "Less"
       THEN <<Head(sorted)>> \o InsertGroup(Tail(sorted), g)
       ELSE <<g>> \o sorted

\* hand_type without groups.sort_by: the groups stay in the order of ranks.
GroupsUnsorted(v, k, sorted) == v

RECURSIVE SortGroupsFrom(_, _, _)
SortGroupsFrom(v, k, sorted) ==
  IF k > Len(v) THEN sorted ELSE SortGroupsFrom(v, k + 1, InsertGroup(sorted, v[k]))

\* The match on groups[0].0 at the end of Hand::hand_type.
GroupType(groups) ==
  CASE groups[1][1] = 2 /\ groups[2][1] = 2 -> TwoPair(groups[1][2], groups[2][2])
    [] groups[1][1] = 2 /\ groups[2][1] # 2 -> Pair(groups[1][2])
    [] groups[1][1] = 3 /\ groups[2][1] = 2 -> FullHouse(groups[1][2], groups[2][2])
    [] groups[1][1] = 3 /\ groups[2][1] # 2 -> ThreeOfAKind(groups[1][2])
    [] groups[1][1] = 4 -> FourOfAKind(groups[1][2])
    [] OTHER -> HighCard

\* Hand::hand_type, as a function of what it reads: self.ranks() and
\* self.is_flush().
HandTypeOf(rs, flush) ==
  LET straight == extract_straight(rs) IN
  IF straight # None
  THEN (IF flush THEN StraightFlush(straight[1]) ELSE Straight(straight[1]))
  ELSE IF flush THEN Flush
  ELSE GroupType(SortGroupsFrom(dedup_with_count(rs), 1, <<>>))

\* The rank arrays a sorted Hand can hold.
RankArrays ==
  UNION {UNION {UNION {UNION {{<<a, b, c, d, e>> : e \in Two..d} : d \in Two..c} :
                c \in Two..b} : b \in Two..a} : a \in Rank}

\* HandTypeOf tabulated on the rank arrays a sorted Hand can hold, without
\* and with a flush (hand_type is pure; the table only saves recomputing it).
HandTypeTable ==
  [a \in Rank |-> [b \in Two..a |-> [c \in Two..b |-> [d \in Two..c |-> [e \in Two..d |->
     <<HandTypeOf(<<a, b, c, d, e>>, FALSE), HandTypeOf(<<a, b, c, d, e>>, TRUE)>>]]]]]

\* Hand::hand_type
hand_type(h) ==
  HandTypeTable[RankOf(h[1])][RankOf(h[2])][RankOf(h[3])][RankOf(h[4])][RankOf(h[5])][IF is_flush(h) THEN 2 ELSE 1]

\* The match in Ord for Hand, on the hand types ta of a and tb of b: the
\* hand types first, the rank arrays on a tie.
CmpByType(a, ta, b, tb) ==
  LET byType == HandTypeCmp(ta, tb) IN
  IF byType = "Equal" THEN LexCmp(ranks(a), ranks(b), 1) ELSE byType

\* Ord for Hand with the match turned around: the rank arrays first, the
\* hand types on a tie.
CmpRanksFirst(a, b) ==
  LET byRanks == LexCmp(ranks(a), ranks(b), 1) IN
  IF byRanks = "Equal" THEN HandTypeCmp(hand_type(a), hand_type(b)) ELSE byRanks

\* Ord for Hand
HandCmp(a, b) == CmpByType(a, hand_type(a), b, hand_type(b))

\* Iterator::min in the place of max: the running minimum stays unless the
\* next item is Less.
MinHand(acc, h) ==
  IF acc = None THEN <<h, hand_type(h)>>
  ELSE LET th == hand_type(h) IN
       IF CmpByType(acc[1], acc[2], h, th) = "Greater" THEN <<h, th>> ELSE acc

\* Iterator::max, one step of its fold: the running maximum stays only
\* when it is Greater than the next item, so the last of equal maxima wins.
\* The accumulator is the running maximum with its hand type next to it,
\* which cmp would otherwise compute again for every item.
MaxHand(acc, h) ==
  IF acc = None THEN <<h, hand_type(h)>>
  ELSE LET th == hand_type(h) IN
       IF CmpByType(acc[1], acc[2], h, th) = "Greater" THEN acc ELSE <<h, th>>

\* cards.iter().cloned().permutations(5).map(sort, Hand).max(): the
\* 5-permutations of the positions in lexicographic order, k running over
\* the next position to append to the permutation begun with the positions
\* in used.  sorted is that beginning, sorted as the insertion sort of
\* sort_by sorts it, so the fifth insertion yields the closure's Hand.
\* (The test of next makes the accumulator a value before the fold goes on.)
RECURSIVE FoldPermutations(_, _, _, _, _)
FoldPermutations(cs, used, sorted, k, acc) ==
  IF k > Len(cs) THEN acc
  ELSE IF k \in used THEN FoldPermutations(cs, used, sorted, k + 1, acc)
  ELSE LET perm == InsertDesc(sorted, cs[k])
           next == IF Len(perm) = HandSize
                   THEN MaxHand(acc, perm)
                   ELSE FoldPermutations(cs, used \cup {k}, perm, 1, acc)
       IN IF next = None
          THEN FoldPermutations(cs, used, sorted, k + 1, None)
          ELSE FoldPermutations(cs, used, sorted, k + 1, next)

\* Hand::best_hand: None when there is no permutation, the maximum otherwise.
best_hand(cs) ==
  LET max == FoldPermutations(cs, {}, <<>>, 1, None) IN
  IF max = None THEN None ELSE Some(max[1])

-----------------------------------------------------------------------------
(* hold_em.rs: find_nuts *)

\* Ord of Option<Hand>: None is Less than Some, two Some by their hands.
OptionHandCmp(x, y) ==
  IF x = None THEN (IF y = None THEN "Equal" ELSE "Less")
  ELSE IF y = None THEN "Greater"
  ELSE HandCmp(x[1], y[1])

\* Ord of the tuple (Option<Hand>, [Card; 2]) the closure of map returns.
ItemCmp(x, y) ==
  LET byHand == OptionHandCmp(x[1], y[1]) IN
  IF byHand = "Equal" THEN LexCmp(x[2], y[2], 1) ELSE byHand

\* Iterator::max on those tuples, one step of its fold.
MaxItem(acc, item) ==
  IF acc # None /\ ItemCmp(acc[1], item) = "Greater" THEN acc ELSE Some(item)

\* Card::iter() without the filter: the cards of the board stay in.
AllCards(board) == CardIter

\* Card::iter().filter(|card| !community.contains(&card))
Undealt(board) == SelectSeq(CardIter, LAMBDA c : c \notin Range(board))

\* The closure of map without community.to_vec(): total_cards is the two
\* cards alone.
HoleCardsOnly(board, two) == <<best_hand(two), two>>

\* The closure of map: total_cards is the board extended by the two cards.
Candidate(board, two) == <<best_hand(board \o two), two>>

\* combinations(2): the index pair after <<i, j>> over n items, i < j.
NextPair(ij, n) == IF ij[2] < n THEN <<ij[1], ij[2] + 1>> ELSE <<ij[1] + 1, ij[1] + 2>>

\* The least number of community cards find_nuts takes.
MinCommunity == 3

\* The length check with <= 1 in the place of < 3: two cards pass.
TooFewOffByOne(board) == Len(board) < MinCommunity - 1

\* community.len() < 3
TooFew(board) == Len(board) < MinCommunity

-----------------------------------------------------------------------------
(* The variables of the operations a specification leaves out stay idle. *)

HandIdle == cards = <<>> /\ hand = None /\ htype = None
OrdIdle  == lhs = <<>> /\ rhs = <<>> /\ ord = None
BestIdle == pool = <<>> /\ best = <<>>
NutsIdle == community = <<>> /\ pc = "idle" /\ at = <<>> /\ nuts = None /\ tried = <<>>
DeckIdle == deck = <<>> /\ prev = <<>> /\ size = 0 /\ ret = None /\ dealt = <<>>

-----------------------------------------------------------------------------
(* Inputs of Hand::from.  A rank array with no rank five times over is     *)
(* dressed with suits: inside a run of equal ranks the suits count up, and *)
(* each new run starts shift suits further, so that the cards differ.      *)
(* The caller's order is one of the affine rearrangements of the five      *)
(* positions, and a repeated card is made by copying a card over its       *)
(* neighbour.                                                              *)

MaxSuitShift == 1
MaxOrder == 2
MaxDup == 1

RunIndex(rs, k) == Cardinality({j \in 1..(k - 1) : rs[j] = rs[k]})
RunNumber(rs, k) == Cardinality({rs[j] : j \in 1..(k - 1)} \ {rs[k]})
Dress(rs, shift) ==
  [k \in 1..HandSize |->
     Card(rs[k], (RunIndex(rs, k) + shift * RunNumber(rs, k)) % NumSuits)]

OrderOf(n, k) == (((k - 1) * ((n % 4) + 1) + (n \div 4)) % HandSize) + 1
Reorder(cs, n) == [k \in 1..HandSize |-> cs[OrderOf(n, k)]]

CopyOver(cs, d) ==
  IF d = 0 THEN cs ELSE [k \in 1..HandSize |-> IF k = d + 1 THEN cs[d] ELSE cs[k]]

\* The array tests::straight passes to Hand::from with the Ace of Diamonds
\* in it twice.
RepeatedAce ==
  <<Card(Two, Diamonds), Card(Four, Diamonds), Card(Three, Diamonds),
    Card(Ace, Diamonds), Card(Ace, Diamonds)>>

HandInputs ==
  {CopyOver(Reorder(Dress(rs, shift), n), d) :
     rs \in {x \in RankArrays : x[1] # x[5]},
     shift \in 0..MaxSuitShift, n \in 0..MaxOrder, d \in 0..MaxDup}
    \cup {RepeatedAce}

InitHand ==
  /\ cards \in HandInputs
  /\ hand = None
  /\ htype = None
  /\ OrdIdle /\ BestIdle /\ NutsIdle /\ DeckIdle

\* let hand = Hand::from(cards);
FromCards ==
  /\ hand = None
  /\ hand' = Some(Hand_from(cards))
  /\ UNCHANGED <<cards, htype, ordVars, bestVars, nutsVars, deckVars>>

\* hand.hand_type()
HandType ==
  /\ hand # None
  /\ htype = None
  /\ htype' = Some(hand_type(hand[1]))
  /\ UNCHANGED <<cards, hand, ordVars, bestVars, nutsVars, deckVars>>

NextHand == FromCards \/ HandType
SpecHand == InitHand /\ [][NextHand]_vars

(* What the claims say of the cards passed in, read off the input itself. *)
Distinct(cs) == Cardinality(Range(cs)) = Len(cs)
RankSet(cs) == {RankOf(cs[k]) : k \in 1..Len(cs)}
SuitSet(cs) == {SuitOf(cs[k]) : k \in 1..Len(cs)}
Count(cs, r) == Cardinality({k \in 1..Len(cs) : RankOf(cs[k]) = r})
TopRank(cs) == CHOOSE r \in RankSet(cs) : \A q \in RankSet(cs) : q <= r
LowRank(cs) == CHOOSE r \in RankSet(cs) : \A q \in RankSet(cs) : q >= r
IsWheel(cs) == RankSet(cs) = {Ace, Five, Four, Three, Two}
IsRun(cs) == Cardinality(RankSet(cs)) = HandSize /\ TopRank(cs) - LowRank(cs) = HandSize - 1
OneSuit(cs) == Cardinality(SuitSet(cs)) = 1
StraightHigh(cs) ==
  IF IsWheel(cs) THEN Some(Five) ELSE IF IsRun(cs) THEN Some(TopRank(cs)) ELSE None
RanksWith(cs, n) == {r \in RankSet(cs) : Count(cs, r) = n}
TheRank(S) == CHOOSE r \in S : TRUE
MaxOf(S) == CHOOSE r \in S : \A q \in S : q <= r
MinOf(S) == CHOOSE r \in S : \A q \in S : q >= r

\* C1: for 5 distinct cards in any order, hand_type reports a straight
\* (Straight or StraightFlush) exactly when the ranks are five consecutive
\* ranks or the wheel; the high rank is the top rank of a run and Five for
\* the wheel; with one suit the hand is a StraightFlush, else a Straight.
C1_StraightDetection ==
  (htype # None /\ Distinct(cards)) =>
    LET high == StraightHigh(cards) IN
    /\ extract_straight(ranks(hand[1])) = high
    /\ high # None =>
         htype[1] = IF OneSuit(cards) THEN StraightFlush(high[1]) ELSE Straight(high[1])
    /\ high = None => htype[1][1] \notin {Straight(Two)[1], StraightFlush(Two)[1]}

C1_Witness ==
  /\ htype = Some(StraightFlush(Five))
  /\ IsWheel(cards) /\ Distinct(cards)
  /\ cards # hand[1]

\* C2: for 5 distinct cards that are neither a straight nor a flush, in any
\* order, hand_type follows from how often each rank occurs: four times
\* FourOfAKind, three and two FullHouse(trips, pair), three ThreeOfAKind,
\* two and two TwoPair(higher, lower), two Pair, else HighCard.
C2_GroupsByRankCount ==
  (htype # None /\ Distinct(cards) /\ StraightHigh(cards) = None /\ ~OneSuit(cards)) =>
    htype[1] =
      (IF RanksWith(cards, 4) # {} THEN FourOfAKind(TheRank(RanksWith(cards, 4)))
       ELSE IF RanksWith(cards, 3) # {} /\ RanksWith(cards, 2) # {}
         THEN FullHouse(TheRank(RanksWith(cards, 3)), TheRank(RanksWith(cards, 2)))
       ELSE IF RanksWith(cards, 3) # {} THEN ThreeOfAKind(TheRank(RanksWith(cards, 3)))
       ELSE IF Cardinality(RanksWith(cards, 2)) = 2
         THEN TwoPair(MaxOf(RanksWith(cards, 2)), MinOf(RanksWith(cards, 2)))
       ELSE IF Cardinality(RanksWith(cards, 2)) = 1 THEN Pair(TheRank(RanksWith(cards, 2)))
       ELSE HighCard)

C2_Witness ==
  /\ htype # None /\ Distinct(cards)
  /\ htype[1] = TwoPair(Five, Four)
  /\ cards # hand[1]

\* C10: a Hand holds 5 distinct cards sorted descending, and 5 cards with a
\* repeated card are never classified by hand_type.
C10_HandsAreDistinct ==
  /\ hand # None => (Len(hand[1]) = HandSize /\ Distinct(hand[1]))
  /\ htype # None => Distinct(cards)

-----------------------------------------------------------------------------
(* Ord for Hand.  The two hands are built by Hand::from from dressed rank  *)
(* arrays over the ranks Two..MaxOrderRank and Ace.                        *)

MaxOrderRank == 4

OrderHands ==
  {Hand_from(Dress(rs, shift)) :
     rs \in {x \in RankArrays :
               x[1] # x[5] /\ \A k \in 1..HandSize : x[k] <= MaxOrderRank \/ x[k] = Ace},
     shift \in 0..MaxSuitShift}

InitOrder ==
  /\ lhs \in OrderHands
  /\ rhs \in OrderHands
  /\ ord = None
  /\ HandIdle /\ BestIdle /\ NutsIdle /\ DeckIdle

\* lhs.cmp(&rhs)
Compare ==
  /\ ord = None
  /\ ord' = Some(HandCmp(lhs, rhs))
  /\ UNCHANGED <<lhs, rhs, handVars, bestVars, nutsVars, deckVars>>

NextOrder == Compare
SpecOrder == InitOrder /\ [][NextOrder]_vars

\* The place of a hand's category in the sequence HighCard, Pair, TwoPair,
\* ThreeOfAKind, Straight, Flush, FullHouse, FourOfAKind, StraightFlush.
Category(h) == hand_type(h)[1]

\* C3: a hand whose category comes later in the sequence HighCard .. 
\* StraightFlush is Greater than a hand of an earlier category, whatever
\* ranks the hand types embed and whatever cards the hands hold.
C3_CategoryDominates ==
  ord # None =>
    /\ Category(lhs) > Category(rhs) => ord[1] = "Greater"
    /\ Category(lhs) < Category(rhs) => ord[1] = "Less"

C3_Witness ==
  /\ ord = Some("Greater")
  /\ hand_type(lhs) = Straight(Five)
  /\ hand_type(rhs) = ThreeOfAKind(Ace)

-----------------------------------------------------------------------------
(* Hand::best_hand.  A pool is every stride-th card of Card::iter from a   *)
(* start, in that order: stride 1 gives the four cards of a rank, stride   *)
(* NumSuits the run of one suit.                                           *)

MinPool == 4
MaxPool == 7
MaxStride == 8
MaxStart == 3

Pools ==
  {[k \in 1..n |-> CardIter[((start + (k - 1) * stride) % Len(CardIter)) + 1]] :
     n \in MinPool..MaxPool, stride \in 1..MaxStride, start \in 0..MaxStart}

InitBest ==
  /\ pool \in Pools
  /\ best = <<>>
  /\ HandIdle /\ OrdIdle /\ NutsIdle /\ DeckIdle

\* Hand::best_hand(&pool)
BestHand ==
  /\ best = <<>>
  /\ best' = <<best_hand(pool)>>
  /\ UNCHANGED <<pool, handVars, ordVars, nutsVars, deckVars>>

NextBest == BestHand
SpecBest == InitBest /\ [][NextBest]_vars

\* The cards of cs at the positions S, in the order of cs.
RECURSIVE Pick(_, _, _)
Pick(cs, S, k) ==
  IF k > Len(cs) THEN <<>>
  ELSE (IF k \in S THEN <<cs[k]>> ELSE <<>>) \o Pick(cs, S, k + 1)
Combinations(cs, n) ==
  {Pick(cs, S, 1) : S \in {T \in SUBSET (1..Len(cs)) : Cardinality(T) = n}}

\* C4: for a pool of 5 or more distinct cards best_hand returns a hand of
\* 5 distinct cards of the pool that is not Less than the hand made from
\* any 5-card combination of the pool.
C4_BestOfCombinations ==
  (best # <<>> /\ Len(pool) >= HandSize /\ Distinct(pool)) =>
    /\ best[1] # None
    /\ Len(best[1][1]) = HandSize
    /\ Distinct(best[1][1])
    /\ Range(best[1][1]) \subseteq Range(pool)
    /\ best[1][1] = Hand_from(best[1][1])
    /\ \A c \in Combinations(pool, HandSize) :
         HandCmp(best[1][1], Hand_from(c)) # "Less"

C4_Witness ==
  /\ best # <<>> /\ best[1] # None
  /\ Len(pool) = 7 /\ Distinct(pool)
  /\ Category(best[1][1]) > Category(Hand_from(SubSeq(pool, 1, HandSize)))

-----------------------------------------------------------------------------
(* cards.rs: Deck *)

MaxShuffle == 3
MaxDeal == 53

\* Deck::new: Card::iter() collected and shuffled.  Of the orders a shuffle
\* can leave, the model takes those that walk Card::iter in steps of an odd
\* width from an offset.
Deck_new(n) ==
  [p \in 1..Len(CardIter) |-> CardIter[(((p - 1) * (2 * n + 1) + n) % Len(CardIter)) + 1]]

\* deal_n that copies the last N cards and leaves the deck as it was.
deal_n_copy(d, N) ==
  IF N > Len(d)
  THEN <<None, d>>
  ELSE <<Some(SubSeq(d, Len(d) - N + 1, Len(d))), d>>

\* deal_n with split_off(N): the deck keeps its first N cards and the rest
\* is dealt.
deal_n_rest(d, N) ==
  IF N > Len(d)
  THEN <<None, d>>
  ELSE LET tail == SubSeq(d, N + 1, Len(d)) IN
       <<IF Len(tail) = N THEN Some(tail) ELSE None, SubSeq(d, 1, N)>>

\* Deck::deal_n::<N>: <<the value returned, the deck afterwards>>.
\* split_off(len - N) takes the tail from that index and leaves the rest.
deal_n(d, N) ==
  IF N > Len(d)
  THEN <<None, d>>
  ELSE <<Some(SubSeq(d, Len(d) - N + 1, Len(d))), SubSeq(d, 1, Len(d) - N)>>

Times(s, c) == Cardinality({k \in 1..Len(s) : s[k] = c})

InitDeck ==
  /\ deck \in {Deck_new(n) : n \in 0..MaxShuffle}
  /\ prev = <<>>
  /\ size = 0
  /\ ret = <<>>
  /\ dealt = <<{}, {}>>
  /\ HandIdle /\ OrdIdle /\ BestIdle /\ NutsIdle

\* deck.deal_n::<N>()
Deal(N) ==
  LET out == deal_n(deck, N)
      array == IF out[1] = None THEN <<>> ELSE out[1][1]
      given == Range(array)
  IN
  /\ prev' = deck
  /\ size' = N
  /\ ret' = <<out[1]>>
  /\ deck' = out[2]
  /\ dealt' = <<dealt[1] \cup given,
               dealt[2] \cup (dealt[1] \cap given) \cup {c \in given : Times(array, c) > 1}>>
  /\ UNCHANGED <<handVars, ordVars, bestVars, nutsVars>>

NextDeck == \E N \in 0..MaxDeal : Deal(N)
SpecDeck == InitDeck /\ [][NextDeck]_vars

\* C8: after any deals from a fresh deck the cards handed out and the cards
\* still in the deck are the 52 cards, each exactly once.
C8_DeckPartition ==
  dealt # <<>> =>
    /\ dealt[2] = {}
    /\ Cardinality(Range(deck)) = Len(deck)
    /\ dealt[1] \cap Range(deck) = {}
    /\ dealt[1] \cup Range(deck) = Range(CardIter)
    /\ Cardinality(Range(CardIter)) = NumRanks * NumSuits

C8_Witness ==
  /\ dealt # <<>> /\ ret # <<>>
  /\ deck = <<>>
  /\ size > 0 /\ size < Len(CardIter) /\ Len(prev) = size
  /\ dealt[1] = Range(CardIter)

\* C9: deal_n::<N> on a deck of fewer than N cards returns None and leaves
\* the deck as it was; otherwise it returns the last N cards in the deck's
\* order and the deck keeps its first len - N cards.
C9_DealLastN ==
  ret # <<>> =>
    IF size > Len(prev)
    THEN ret[1] = None /\ deck = prev
    ELSE /\ ret[1] # None
         /\ ret[1][1] = [k \in 1..size |-> prev[Len(prev) - size + k]]
         /\ deck = [k \in 1..(Len(prev) - size) |-> prev[k]]

C9_Witness ==
  /\ ret # <<>> /\ ret[1] = None
  /\ size > Len(prev) /\ Len(prev) > 0 /\ Len(prev) < Len(CardIter)
  /\ deck = prev

-----------------------------------------------------------------------------
(* find_nuts, as its iterator chain runs: the call checks the board, each  *)
(* step pulls one combination through filter, combinations, map and max,   *)
(* and the end of the combinations hands the maximum to expect.            *)

TheBoard ==
  <<Card(Two, Diamonds), Card(Four, Diamonds), Card(Three, Diamonds),
    Card(Five, Diamonds), Card(Six, Diamonds)>>
Rainbow == <<Card(Ace, Hearts), Card(King, Clubs), Card(Seven, Spades)>>

\* The boards of fewer than five cards: what is on the table before the
\* river, and two boards too short for find_nuts.
Boards ==
  {SubSeq(TheBoard, 1, n) : n \in 0..(Len(TheBoard) - 1)} \cup {Rainbow}

InitNuts ==
  /\ community \in Boards
  /\ pc = "call"
  /\ at = <<>>
  /\ nuts = None
  /\ tried = <<>>
  /\ HandIdle /\ OrdIdle /\ BestIdle /\ DeckIdle

\* find_nuts(&community): the length check, then the chain is set up.
Call ==
  /\ pc = "call"
  /\ IF TooFew(community)
     THEN pc' = "panic" /\ at' = at
     ELSE pc' = "iter" /\ at' = <<1, 2>>
  /\ UNCHANGED <<community, nuts, tried, handVars, ordVars, bestVars, deckVars>>

\* max pulls the next combination of two undealt cards through map.
Iterate ==
  /\ pc = "iter"
  /\ at[2] <= Len(Undealt(community))
  /\ \E rest \in {Undealt(community)} :
       \E item \in {Candidate(community, <<rest[at[1]], rest[at[2]]>>)} :
         /\ nuts' = MaxItem(nuts, item)
         /\ tried' = Append(tried, item)
         /\ at' = NextPair(at, Len(rest))
  /\ UNCHANGED <<community, pc, handVars, ordVars, bestVars, deckVars>>

\* The combinations are used up: max returns, expect unwraps or panics.
Return ==
  /\ pc = "iter"
  /\ at[2] > Len(Undealt(community))
  /\ pc' = IF nuts = None THEN "panic" ELSE "done"
  /\ UNCHANGED <<community, at, nuts, tried, handVars, ordVars, bestVars, deckVars>>

NextNuts == Call \/ Iterate \/ Return
SpecNuts == InitNuts /\ [][NextNuts]_vars

\* find_nuts on the full board of five cards, 2d 4d 3d 5d 6d.
InitRiver ==
  /\ community = TheBoard
  /\ pc = "call"
  /\ at = <<>>
  /\ nuts = None
  /\ tried = <<>>
  /\ HandIdle /\ OrdIdle /\ BestIdle /\ DeckIdle

SpecRiver == InitRiver /\ [][NextNuts]_vars

\* The unordered pairs of cards that are not on the board.
HolePairs(board) ==
  {<<a, b>> : a \in Range(CardIter) \ Range(board), b \in Range(CardIter) \ Range(board)}
    \cap {ab \in Range(CardIter) \X Range(CardIter) : ab[1] < ab[2]}

\* C5: for a board of 3 or 4 distinct cards every pair find_nuts tries is
\* two distinct cards that are not on the board, the running maximum is one
\* of the tried items and not Less than the item tried last, and what it
\* returns is a pair with the hand that is best_hand of the board with that
\* pair and is not Less than best_hand of the board with any other two
\* cards that are not on the board.
C5_NutsAreBest ==
  Len(community) \in {3, 4} =>
    /\ tried # <<>> =>
         LET last == tried[Len(tried)] IN
         /\ last[2][1] # last[2][2]
         /\ Range(last[2]) \cap Range(community) = {}
         /\ nuts # None
         /\ nuts[1] \in Range(tried)
         /\ OptionHandCmp(nuts[1][1], last[1]) # "Less"
    /\ pc = "done" =>
         LET h == nuts[1][1]
             two == nuts[1][2]
         IN /\ two[1] # two[2]
            /\ Range(two) \cap Range(community) = {}
            /\ Range(two) \subseteq Range(CardIter)
            /\ h = best_hand(community \o two)
            /\ {tried[k][2] : k \in 1..Len(tried)} = HolePairs(community)
            /\ \A k \in 1..Len(tried) : OptionHandCmp(h, tried[k][1]) # "Less"

C5_Witness ==
  /\ pc = "done" /\ Len(community) = 4
  /\ hand_type(nuts[1][1][1]) = StraightFlush(Seven)
  /\ nuts[1][2] = <<Card(Six, Diamonds), Card(Seven, Diamonds)>>

\* C6 as the spec states it: on the board 2d 4d 3d 5d 6d no two cards that
\* find_nuts adds produce a hand stronger than the board's own
\* StraightFlush(Six), and a hand of that type is what find_nuts returns.
C6_AsStated ==
  community = TheBoard =>
    /\ \A k \in 1..Len(tried) :
         tried[k][1] # None /\ hand_type(tried[k][1][1]) = StraightFlush(Six)
    /\ pc = "done" => hand_type(nuts[1][1][1]) = StraightFlush(Six)

\* C6: on the board 2d 4d 3d 5d 6d every pair find_nuts tries makes at least
\* the board's own StraightFlush(Six), and find_nuts returns the pair
\* 7d 8d with the hand 8d 7d 6d 5d 4d, of type StraightFlush(Eight).
C6_NutsOfTheBoard ==
  community = TheBoard =>
    /\ tried # <<>> =>
         LET last == tried[Len(tried)] IN
         /\ last[1] # None
         /\ HandTypeCmp(hand_type(last[1][1]), StraightFlush(Six)) # "Less"
    /\ pc \in {"call", "iter", "done"}
    /\ pc = "done" =>
         /\ nuts[1][2] = <<Card(Seven, Diamonds), Card(Eight, Diamonds)>>
         /\ nuts[1][1] = Some(<<Card(Eight, Diamonds), Card(Seven, Diamonds),
                                Card(Six, Diamonds), Card(Five, Diamonds),
                                Card(Four, Diamonds)>>)
         /\ hand_type(nuts[1][1][1]) = StraightFlush(Eight)

C6_Witness ==
  /\ community = TheBoard
  /\ nuts # None
  /\ nuts[1][2] = <<Card(Seven, Diamonds), Card(Eight, Diamonds)>>
  /\ hand_type(nuts[1][1][1]) = StraightFlush(Eight)

\* C7: find_nuts with fewer than 3 community cards fails and yields no
\* (hand, pair) answer.
C7_TooFewCommunityCards ==
  Len(community) < 3 => (pc \in {"call", "panic"} /\ nuts = None /\ tried = <<>>)

C7_Witness ==
  /\ Len(community) = 2
  /\ pc = "panic" /\ nuts = None

====
